---- MODULE Spec2Model ----
(***************************************************************************)
(* Model of the fallback hasher of aHash (src/fallback_hash.rs): a keyed   *)
(* streaming hasher whose only state is one u64, `buffer`.                 *)
(*                                                                         *)
(* A u64 is held as four 16-bit limbs, least significant first, so that    *)
(* every wrapping operation is computed modulo 2^64 exactly; a u32 is two  *)
(* limbs, a u16 one limb, a byte a number in 0..255.                       *)
(***************************************************************************)
EXTENDS Integers, Sequences, FiniteSets

LimbBase == 256 * 256

Pow2(n) == 2 ^ n

\* ------------------------------------------------------------------------
\* u64 primitives of the Rust standard library, as the source uses them.

RECURSIVE XorBits(_, _, _)
XorBits(a, b, n) ==
    IF n = 0 THEN 0
    ELSE ((a + b) % 2) + 2 * XorBits(a \div 2, b \div 2, n - 1)

\* the exclusive or of two 4-bit numbers, tabulated
XorNibble == [a \in 0..15 |-> [b \in 0..15 |-> XorBits(a, b, 4)]]

\* the exclusive or of two limbs, four bits at a time
XorLimb(a, b) ==
    XorNibble[a % 16][b % 16]
    + 16 * XorNibble[(a \div 16) % 16][(b \div 16) % 16]
    + 256 * XorNibble[(a \div 256) % 16][(b \div 256) % 16]
    + 4096 * XorNibble[a \div 4096][b \div 4096]

\* `^` on two u64
Xor(x, y) ==
    <<XorLimb(x[1], y[1]), XorLimb(x[2], y[2]),
      XorLimb(x[3], y[3]), XorLimb(x[4], y[4])>>

RECURSIVE AddLimbs(_, _, _, _)
AddLimbs(x, y, i, carry) ==
    IF i > Len(x) THEN <<>>
    ELSE LET s == x[i] + y[i] + carry
         IN  <<s % LimbBase>> \o AddLimbs(x, y, i + 1, s \div LimbBase)

\* u64::wrapping_add: the carry out of the top limb is dropped
wrapping_add(x, y) == AddLimbs(x, y, 1, 0)

\* the eight bytes of a u64, least significant first
BytesOf(x) ==
    <<x[1] % 256, x[1] \div 256, x[2] % 256, x[2] \div 256,
      x[3] % 256, x[3] \div 256, x[4] % 256, x[4] \div 256>>

\* The product is taken limb by limb.  A limb times a limb can pass 2^31, so
\* the second factor's limbs are split in their low and high bytes: column k
\* of the product is low(k) + 256 * high(k).

RECURSIVE ColumnLow(_, _, _, _)
ColumnLow(x, y, k, i) ==
    IF i > k THEN 0
    ELSE x[i] * (y[k - i + 1] % 256) + ColumnLow(x, y, k, i + 1)

RECURSIVE ColumnHigh(_, _, _, _)
ColumnHigh(x, y, k, i) ==
    IF i > k THEN 0
    ELSE x[i] * (y[k - i + 1] \div 256) + ColumnHigh(x, y, k, i + 1)

RECURSIVE MulLimbs(_, _, _, _)
MulLimbs(x, y, k, carry) ==
    IF k > Len(x) THEN <<>>
    ELSE LET low  == ColumnLow(x, y, k, 1)
             high == ColumnHigh(x, y, k, 1)
             t    == low + 256 * (high % 256) + carry
         IN  <<t % LimbBase>>
             \o MulLimbs(x, y, k + 1, (t \div LimbBase) + (high \div 256))

\* u64::wrapping_mul: the low 64 bits of the product
wrapping_mul(x, y) == MulLimbs(x, y, 1, 0)

\* limb i (from 0) of x rotated left by 16 * q + r bits
RotatedLimb(x, i, q, r) ==
    ((x[((i - q + 4) % 4) + 1] * Pow2(r)) % LimbBase)
    + (x[((i - q + 3) % 4) + 1] \div Pow2(16 - r))

rotate_left(x, n) ==
    <<RotatedLimb(x, 0, n \div 16, n % 16), RotatedLimb(x, 1, n \div 16, n % 16),
      RotatedLimb(x, 2, n \div 16, n % 16), RotatedLimb(x, 3, n \div 16, n % 16)>>

\* `as u64` of a narrower unsigned integer: zero extension
AsU64(x) == IF Len(x) >= 4 THEN x ELSE x \o SubSeq(<<0, 0, 0>>, Len(x), 3)

\* `as u64` of a byte (data[0] as u64) or of a length (data.len() as u64)
NatAsU64(n) == <<n % LimbBase, n \div LimbBase, 0, 0>>

\* ------------------------------------------------------------------------
\* Constants of the hasher, as limbs (least significant first).

\* const MULTIPLE: u64 = 6364136223846793005 = 0x5851F42D4C957F2D
\* (limbs 7F2D 4C95 F42D 5851)
MULTIPLE == <<32557, 19605, 62509, 22609>>

\* const INCREMENT: u64 = 1442695040888963407 = 0x14057B7EF767814F
\* (limbs 814F F767 7B7E 1405)
INCREMENT == <<33103, 63335, 31614, 5125>>

ROT == 23

\* ------------------------------------------------------------------------
\* crate::convert::Convert: reinterpretation of fixed-size values, taken as
\* little-endian.

\* [u8; 2] -> u16, [u8; 4] -> u32, [u8; 8] -> u64
RECURSIVE ConvertBytes(_)
ConvertBytes(bytes) ==
    IF Len(bytes) < 2 THEN <<>>
    ELSE <<bytes[1] + 256 * bytes[2]>> \o ConvertBytes(Tail(Tail(bytes)))

\* [u16; 2] -> u32, [u32; 2] -> u64: element 0 is the low half
ConvertArray(block) == block[1] \o block[2]

\* ------------------------------------------------------------------------
\* AHasher

\* mutant of new_with_keys: key1 is not rotated
new_with_keys_unrotated(key0, key1) == Xor(key0, key1)

\* pub(crate) fn new_with_keys(key0: u64, key1: u64) -> AHasher: the buffer
new_with_keys(key0, key1) == Xor(key0, rotate_left(key1, ROT))

\* fn update(&mut self, new_data: u64): the new value of self.buffer
update(self, new_data) ==
    LET existing ==
          wrapping_mul(rotate_left(wrapping_mul(self, MULTIPLE), ROT), MULTIPLE)
    IN  Xor(existing, new_data)

\* fn ordered_update(&mut self, new_data: u64, key: u64) -> u64:
\* the new value of self.buffer and the key returned
ordered_update(self, new_data, key) ==
    [buffer |-> Xor(self,
                    wrapping_mul(rotate_left(wrapping_mul(Xor(new_data, key),
                                                          MULTIPLE), ROT),
                                 MULTIPLE)),
     key    |-> wrapping_add(key, INCREMENT)]

\* mutant of finish: a shift left by ROT in place of the rotation (the low ROT
\* bits of the rotated word are cleared)
finish_shifted(self) ==
    LET r == rotate_left(wrapping_mul(self, MULTIPLE), ROT)
    IN  wrapping_mul(<<0, r[2] - (r[2] % Pow2(ROT - 16)), r[3], r[4]>>, MULTIPLE)

\* fn finish(&self) -> u64: the value returned
finish(self) ==
    wrapping_mul(rotate_left(wrapping_mul(self, MULTIPLE), ROT), MULTIPLE)

\* fn write_u64(&mut self, i: u64)
write_u64(self, i) == update(self, i)

\* ------------------------------------------------------------------------
\* fn write(&mut self, input: &[u8])
\*
\* The call is followed through a record w: the buffer, the ordering key,
\* the bytes still in `data`, how many bytes were split off the front
\* (base), the mixing calls made so far, the windows read so far, and
\* whether every slice operation so far was in bounds (a slice operation
\* out of bounds panics).

\* array_ref!(data, off, n) / split_at: the window [off, off + n) of a slice
\* of `len` bytes exists
InBounds(off, n, len) == off >= 0 /\ off + n <= len

\* the bytes of the window; what a window out of bounds would hold is
\* immaterial, the call has panicked
RECURSIVE array_ref(_, _, _)
array_ref(data, off, n) ==
    IF n = 0 THEN <<>>
    ELSE Append(array_ref(data, off, n - 1),
                IF off + n \in 1..Len(data) THEN data[off + n] ELSE 0)

NoteRead(w, off, n) ==
    [w EXCEPT !.reads = Append(@, [start  |-> w.base + off,
                                   offset |-> off,
                                   width  |-> n,
                                   remain |-> Len(w.data)]),
              !.ok    = @ /\ InBounds(off, n, Len(w.data))]

NoteCall(w, name, buf) ==
    [w EXCEPT !.buffer = buf, !.calls = Append(@, name)]

\* mutant of the length step: the length is not mixed in
AddLengthOmitted(self, len) == self

\* self.buffer = self.buffer.wrapping_add(length)
AddLength(self, len) == wrapping_add(self, NatAsU64(len))

\* if data.len() > 8
IsLong(len) == len > 8

\* mutants of the loop condition: while data.len() > 8, while data.len() >= 16
LoopCondOver8(len) == len > 8

LoopCondFrom16(len) == len >= 16

\* while data.len() > 16
LoopCond(len) == len > 16

\* mutant of the last window's offset: the first window is read again
LastOffsetZero(len, n) == 0

\* data.len()-8, data.len()-4, data.len()-2: the offset of the last window
LastOffset(len, n) == len - n

\* one iteration of the loop: split 8 bytes off the front and mix them
LoopBody(w) ==
    LET block == array_ref(w.data, 0, 8)
        rest  == SubSeq(w.data, 9, Len(w.data))
        val   == ConvertBytes(block)
        r     == ordered_update(w.buffer, val, w.key)
        w1    == NoteCall(NoteRead(w, 0, 8), "ordered_update", r.buffer)
    IN  [w1 EXCEPT !.key = r.key, !.data = rest, !.base = @ + 8,
                   !.loops = @ + 1]

RECURSIVE Loop(_)
Loop(w) == IF LoopCond(Len(w.data)) THEN Loop(LoopBody(w)) ELSE w

\* the branch data.len() > 8
WriteLong(w0) ==
    LET w1   == Loop([w0 EXCEPT !.key = w0.buffer])
        val1 == ConvertBytes(array_ref(w1.data, 0, 8))
        r    == ordered_update(w1.buffer, val1, w1.key)
        w2   == NoteCall(NoteRead(w1, 0, 8), "ordered_update", r.buffer)
        off  == LastOffset(Len(w2.data), 8)
        val2 == ConvertBytes(array_ref(w2.data, off, 8))
    IN  NoteCall(NoteRead(w2, off, 8), "update", update(w2.buffer, val2))

\* mutant of the 4..8 band: the last 4 bytes come first in the block
Block32Swapped(data) ==
    <<ConvertBytes(array_ref(data, Len(data) - 4, 4)),
      ConvertBytes(array_ref(data, 0, 4))>>

\* let block: [u32; 2] = [first 4 bytes, last 4 bytes]
Block32(data) ==
    <<ConvertBytes(array_ref(data, 0, 4)),
      ConvertBytes(array_ref(data, LastOffset(Len(data), 4), 4))>>

\* let block: [u16; 2] = [first 2 bytes, last 2 bytes]
Block16(data) ==
    <<ConvertBytes(array_ref(data, 0, 2)),
      ConvertBytes(array_ref(data, LastOffset(Len(data), 2), 2))>>

\* the branch data.len() <= 8
WriteShort(w) ==
    LET len == Len(w.data)
    IN  IF len >= 2
        THEN IF len >= 4
             THEN LET w1 == NoteRead(NoteRead(w, 0, 4), LastOffset(len, 4), 4)
                  IN  NoteCall(w1, "update",
                               update(w.buffer, ConvertArray(Block32(w.data))))
             ELSE LET w1  == NoteRead(NoteRead(w, 0, 2), LastOffset(len, 2), 2)
                      val == ConvertArray(Block16(w.data))
                  IN  NoteCall(w1, "update", update(w.buffer, AsU64(val)))
        ELSE IF len >= 1
             THEN NoteCall(NoteRead(w, 0, 1), "update",
                           update(w.buffer, NatAsU64(w.data[1])))
             ELSE w

\* the whole call: the record at return
WriteCall(self, input) ==
    LET w == [buffer |-> AddLength(self, Len(input)),
              key    |-> NatAsU64(0),
              data   |-> input,
              base   |-> 0,
              loops  |-> 0,
              calls  |-> <<>>,
              reads  |-> <<>>,
              ok     |-> TRUE]
    IN  IF IsLong(Len(input)) THEN WriteLong(w) ELSE WriteShort(w)

\* the value of self.buffer after write(input)
write(self, input) == WriteCall(self, input).buffer

\* ------------------------------------------------------------------------
\* Hashing sessions.  At most two hashers exist: hasher 1 is made by
\* new_with_keys, hasher 2 by new_with_keys or by cloning hasher 1.

VARIABLES
    live,     \* the hashers that exist
    buffer,   \* buffer[h]: the field `buffer` of hasher h
    keys,     \* keys[h]: the key pair of the new_with_keys call h descends from
    log,      \* log[h]: the calls made on h (and on its original, before a clone)
    digests,  \* digests[h]: what the finish() calls since the last write on h returned
    forkAt,   \* Len(log[1]) when hasher 2 was cloned from hasher 1, else -1
    trace     \* the record of the latest write call

vars == <<live, buffer, keys, log, digests, forkAt, trace>>

Hashers == {1, 2}

Zero == NatAsU64(0)

None == <<>>

NoTrace == [len |-> -1, loops |-> 0, calls |-> <<>>, reads |-> <<>>, ok |-> TRUE]

TraceOf(input, w) ==
    [len |-> Len(input), loops |-> w.loops, calls |-> w.calls,
     reads |-> w.reads, ok |-> w.ok]

WriteOp(input) == [op |-> "write", arg |-> input]

WriteU64Op(i) == [op |-> "write_u64", arg |-> i]

FinishOp == [op |-> "finish", arg |-> None]

\* AHasher::new_with_keys(key0, key1), bound to h
New(h, k) ==
    /\ h \notin live
    /\ live'   = live \cup {h}
    /\ buffer' = [buffer EXCEPT ![h] = new_with_keys(k[1], k[2])]
    /\ keys'   = [keys EXCEPT ![h] = k]
    /\ log'    = [log EXCEPT ![h] = <<>>]
    /\ digests' = [digests EXCEPT ![h] = <<>>]
    /\ UNCHANGED <<forkAt, trace>>

\* mutant of Clone: the clone starts from a zero buffer
CloneBufferZeroed(self) == Zero

\* #[derive(Clone)]: the value of the clone's field
CloneBuffer(self) == self

\* let dst = src.clone()
Clone(src, dst) ==
    /\ src \in live
    /\ dst \notin live
    /\ live'   = live \cup {dst}
    /\ buffer' = [buffer EXCEPT ![dst] = CloneBuffer(buffer[src])]
    /\ keys'   = [keys EXCEPT ![dst] = keys[src]]
    /\ log'    = [log EXCEPT ![dst] = log[src]]
    /\ digests' = [digests EXCEPT ![dst] = <<>>]
    /\ forkAt' = Len(log[src])
    /\ UNCHANGED trace

\* h.write(input)
Write(h, input) ==
    /\ h \in live
    /\ LET w == WriteCall(buffer[h], input)
       IN  /\ buffer' = [buffer EXCEPT ![h] = w.buffer]
           /\ trace'  = TraceOf(input, w)
    /\ log'    = [log EXCEPT ![h] = Append(@, WriteOp(input))]
    /\ digests' = [digests EXCEPT ![h] = <<>>]
    /\ UNCHANGED <<live, keys, forkAt>>

\* h.write_u64(i)
WriteU64(h, i) ==
    /\ h \in live
    /\ buffer' = [buffer EXCEPT ![h] = write_u64(buffer[h], i)]
    /\ log'    = [log EXCEPT ![h] = Append(@, WriteU64Op(i))]
    /\ digests' = [digests EXCEPT ![h] = <<>>]
    /\ UNCHANGED <<live, keys, forkAt, trace>>

\* mutant of finish: the mixed value is stored back into the buffer
FinishStoring(h) ==
    /\ h \in live
    /\ digests' = [digests EXCEPT ![h] = Append(@, finish(buffer[h]))]
    /\ buffer'  = [buffer EXCEPT ![h] = finish(buffer[h])]
    /\ log'     = [log EXCEPT ![h] = Append(@, FinishOp)]
    /\ UNCHANGED <<live, keys, forkAt, trace>>

\* h.finish(): takes &self, so the hasher is left as it was
Finish(h) ==
    /\ h \in live
    /\ digests' = [digests EXCEPT ![h] = Append(@, finish(buffer[h]))]
    /\ log'    = [log EXCEPT ![h] = Append(@, FinishOp)]
    /\ UNCHANGED <<live, buffer, keys, forkAt, trace>>

\* ------------------------------------------------------------------------
\* The values the sessions are run on.

\* new_with_keys(0, 0), as in tests::test_hash
KeyZero == <<Zero, Zero>>

\* 0x0123456789ABCDEF, 0xFEDCBA9876543210
KeyA == <<<<52719, 35243, 17767, 291>>,
          <<12816, 30292, 47768, 65244>>>>

\* 0xFFFFFFFFFFFFFFFF, 0x8000000000000001
KeyB == <<<<65535, 65535, 65535, 65535>>,
          <<1, 0, 0, 32768>>>>

\* 0x00000000DEADBEEF
Delta == <<48879, 57005, 0, 0>>

\* the key pair (key0 XOR rotate_left(d, ROT), key1 XOR d)
Related(k, d) == <<Xor(k[1], rotate_left(d, ROT)), Xor(k[2], d)>>

\* 1, 1 << 32 (the two values of tests::test_hash) and 0x8000000000000001
One == NatAsU64(1)

OneShl32 == <<0, 0, 1, 0>>

TopOne == <<1, 0, 0, 32768>>

\* 0x0807060504030201: its little-endian bytes are 1, 2, ..., 8
Counting == <<513, 1027, 1541, 2055>>

\* n bytes: seed, seed + 7, seed + 14, ... (mod 256)
Pattern(seed, n) == [i \in 1..n |-> (seed + 7 * (i - 1)) % 256]

MaxLen == 40

MaxOps == 3

\* every length up to MaxLen, and the 130 bytes of the truncation test
Lengths == (0..MaxLen) \cup {130}

LengthInputs == {Pattern(seed, n) : seed \in {3, 100}, n \in Lengths}

KeyPairs == {KeyZero, KeyA, Related(KeyA, Delta)}

SessionInputs == {Pattern(100, 11)}

SessionValues == {Counting}

\* ------------------------------------------------------------------------
\* Spec: sessions of up to MaxOps calls on each of two hashers.

\* hasher 1 has just been made by new_with_keys
Init ==
    \E k \in KeyPairs :
        /\ live   = {1}
        /\ buffer = [h \in Hashers |-> IF h = 1 THEN new_with_keys(k[1], k[2]) ELSE None]
        /\ keys   = [h \in Hashers |-> IF h = 1 THEN k ELSE None]
        /\ log    = [h \in Hashers |-> <<>>]
        /\ digests = [h \in Hashers |-> <<>>]
        /\ forkAt = -1
        /\ trace  = NoTrace

HasRoom(h) == Len(log[h]) < MaxOps

NewSecond == \E k \in KeyPairs : New(2, k)

CloneFirst == Clone(1, 2)

WriteBytes == \E h \in Hashers, input \in SessionInputs : HasRoom(h) /\ Write(h, input)

WriteWord == \E h \in Hashers, i \in SessionValues : HasRoom(h) /\ WriteU64(h, i)

Finalize == \E h \in Hashers : HasRoom(h) /\ Finish(h)

Next == NewSecond \/ CloneFirst \/ WriteBytes \/ WriteWord \/ Finalize

Spec == Init /\ [][Next]_vars

\* ------------------------------------------------------------------------
\* SpecWrite: one write call on a fresh hasher, over every length.

WriteOnce == \E input \in LengthInputs : log[1] = <<>> /\ Write(1, input)

SpecWrite == Init /\ [][WriteOnce]_vars

\* ------------------------------------------------------------------------
\* SpecPair: two hashers made with the same keys; each takes one write call
\* and is then finished, so that two calls can be compared from one state.

\* "dddddddd", the input of tests::test_conversion, as a u64
Dddd == <<25700, 25700, 25700, 25700>>

\* the block that trades places with block a in front of a 24-byte input
\* hashed from accumulator acc: a XOR key XOR (key + INCREMENT), where key is
\* the ordering key of the first block
Partner(acc, a) ==
    LET key == AddLength(acc, 24)
    IN  Xor(a, Xor(key, wrapping_add(key, INCREMENT)))

\* the three 8-byte blocks that are permuted
Blocks == <<Dddd, Partner(new_with_keys(Zero, Zero), Dddd), Counting>>

Permutations == {p \in [1..3 -> 1..3] : \A i, j \in 1..3 : p[i] = p[j] => i = j}

\* the 24 bytes of the blocks in the order p
Arrange(p) ==
    BytesOf(Blocks[p[1]]) \o BytesOf(Blocks[p[2]]) \o BytesOf(Blocks[p[3]])

BlockInputs == {Arrange(p) : p \in Permutations}

PairKeys == {KeyZero, KeyA, KeyB}

PairValues == {One, OneShl32, TopOne, Counting}

PairInputs == {<<0>>, <<0, 0>>} \cup {BytesOf(v) : v \in PairValues} \cup BlockInputs

InitPair ==
    \E k \in PairKeys :
        /\ live    = Hashers
        /\ buffer  = [h \in Hashers |-> new_with_keys(k[1], k[2])]
        /\ keys    = [h \in Hashers |-> k]
        /\ log     = [h \in Hashers |-> <<>>]
        /\ digests = [h \in Hashers |-> <<>>]
        /\ forkAt  = -1
        /\ trace   = NoTrace

PairWrite == \E h \in Hashers, input \in PairInputs : log[h] = <<>> /\ Write(h, input)

PairWriteWord == \E h \in Hashers, i \in PairValues : log[h] = <<>> /\ WriteU64(h, i)

PairFinish == \E h \in Hashers : Len(log[h]) = 1 /\ Finish(h)

NextPair == PairWrite \/ PairWriteWord \/ PairFinish

SpecPair == InitPair /\ [][NextPair]_vars

\* ------------------------------------------------------------------------
\* Properties.

IsWrite(o) == o.op # "finish"

\* the write calls of a log, in order
Writes(ops) == SelectSeq(ops, IsWrite)

\* the accumulator hasher h started from
Start(h) == new_with_keys(keys[h][1], keys[h][2])

\* the latest digest finish() returned on h
Digest(h) == digests[h][Len(digests[h])]

\* h took exactly the call o and was then finished
Finished(h, o) == h \in live /\ log[h] = <<o, FinishOp>>

Ceil8(n) == (n + 7) \div 8

Window(start, n) == [start |-> start, width |-> n]

WindowOf(r) == Window(r.start, r.width)

\* C1: write completes without a panic for every input length: each window
\* it reads lies inside the bytes that remain when it is read, and no offset
\* len - k is negative.
C1_WindowsInBounds ==
    trace.len >= 0 =>
        /\ trace.ok
        /\ \A i \in 1..Len(trace.reads) :
              LET r == trace.reads[i]
              IN  /\ r.offset >= 0
                  /\ r.offset + r.width <= r.remain
                  /\ r.start + r.width <= trace.len

C1_Witness ==
    /\ trace.len = 130
    /\ trace.ok
    /\ Len(trace.reads) = 17
    /\ trace.reads[17].offset = 2

\* C2: a write of L bytes makes no mixing call for L = 0, one update for
\* 1 <= L <= 8, and for L >= 9 ceil(L/8) - 1 ordered_update calls followed by
\* one update; the loop runs ceil((L-16)/8) times for L > 16 (15 times for
\* L = 130) and never otherwise.
C2_CallCounts ==
    trace.len >= 0 =>
        LET L == trace.len
            c == trace.calls
        IN  /\ L = 0 => c = <<>>
            /\ (L >= 1 /\ L <= 8) => c = <<"update">>
            /\ L >= 9 =>
                  /\ Len(c) = Ceil8(L)
                  /\ \A i \in 1..(Len(c) - 1) : c[i] = "ordered_update"
                  /\ c[Len(c)] = "update"
            /\ trace.loops = (IF L > 16 THEN Ceil8(L - 16) ELSE 0)
            /\ L = 130 => trace.loops = 15

C2_Witness ==
    /\ trace.len = 130
    /\ trace.loops = 15
    /\ Len(trace.calls) = 17

\* C3: for L >= 1 every byte of the input lies in a window that write reads:
\* the byte itself for L = 1, two 2-byte windows for L = 2..3, two 4-byte
\* windows for L = 4..8, and for L >= 9 the loop's front blocks, the first 8
\* bytes that remain and the last 8 bytes.
C3_EveryByteRead ==
    trace.len >= 1 =>
        LET L == trace.len
            r == trace.reads
        IN  /\ \A i \in 0..(L - 1) :
                  \E k \in 1..Len(r) :
                      r[k].start <= i /\ i < r[k].start + r[k].width
            /\ L = 1 => r = <<[start |-> 0, offset |-> 0, width |-> 1, remain |-> 1]>>
            /\ (L >= 2 /\ L <= 3) =>
                  <<WindowOf(r[1]), WindowOf(r[2])>> = <<Window(0, 2), Window(L - 2, 2)>>
            /\ (L >= 4 /\ L <= 8) =>
                  <<WindowOf(r[1]), WindowOf(r[2])>> = <<Window(0, 4), Window(L - 4, 4)>>
            /\ L >= 9 =>
                  /\ Len(r) = trace.loops + 2
                  /\ \A k \in 1..(trace.loops + 1) :
                        WindowOf(r[k]) = Window(8 * (k - 1), 8)
                  /\ WindowOf(r[Len(r)]) = Window(L - 8, 8)

C3_Witness ==
    /\ trace.len = 13
    /\ Len(trace.reads) = 2
    /\ trace.reads[1].start = 0
    /\ trace.reads[2].start = 5

\* C4: the digests of two inputs that are distinct orders of the same three
\* 8-byte blocks differ, under the same keys.
C4_PermutationsDiffer ==
    \A h1, h2 \in live :
        \A p1, p2 \in BlockInputs :
            (p1 # p2 /\ Finished(h1, WriteOp(p1)) /\ Finished(h2, WriteOp(p2)))
                => Digest(h1) # Digest(h2)

\* C5: under the same keys the digest of the one byte 0 differs from the
\* digest of the two bytes 0, 0: the word mixed is 0 both times, the length
\* added before it is 1 and 2.
C5_LengthSensitive ==
    \A h1, h2 \in live :
        (Finished(h1, WriteOp(<<0>>)) /\ Finished(h2, WriteOp(<<0, 0>>)))
            => /\ Digest(h1) # Digest(h2)
               /\ buffer[h1] = update(wrapping_add(Start(h1), NatAsU64(1)), Zero)
               /\ buffer[h2] = update(wrapping_add(Start(h2), NatAsU64(2)), Zero)

C5_Witness ==
    /\ Finished(1, WriteOp(<<0>>))
    /\ Finished(2, WriteOp(<<0, 0>>))
    /\ keys[1] = KeyA

\* C6: finish returns rotate_left(buffer * MULTIPLE, ROT) * MULTIPLE and leaves
\* the buffer as it was: every finish since the last write returned that
\* value of the present buffer, and two hashers with the same keys and the
\* same writes hold the same buffer however many finish calls lie between
\* the writes.
C6_FinishReadsOnly ==
    \A h1 \in live :
        /\ \A i \in 1..Len(digests[h1]) :
              digests[h1][i] =
                  wrapping_mul(rotate_left(wrapping_mul(buffer[h1], MULTIPLE), ROT),
                               MULTIPLE)
        /\ \A h2 \in live :
              (keys[h1] = keys[h2] /\ Writes(log[h1]) = Writes(log[h2]))
                  => buffer[h1] = buffer[h2]

C6_Witness ==
    \E input \in SessionInputs :
        /\ live = Hashers
        /\ keys[1] = keys[2]
        /\ forkAt = -1
        /\ log[1] = <<WriteOp(input), FinishOp, FinishOp>>
        /\ log[2] = <<FinishOp, WriteOp(input)>>

\* C7, once hasher 2 is a clone of hasher 1: equal writes give equal buffers
\* and equal digests (at the clone, and after the same further writes)
CloneAgrees ==
    (forkAt >= 0 /\ Writes(log[1]) = Writes(log[2]))
        => /\ buffer[1] = buffer[2]
           /\ (digests[1] # <<>> /\ digests[2] # <<>>) => Digest(1) = Digest(2)

\* C7, once hasher 2 is a clone of hasher 1: a call on one of them leaves the
\* buffer and the digests of the other as they were
CloneFrame ==
    forkAt >= 0 =>
        \A h \in live :
            log'[h] # log[h] =>
                \A g \in live \ {h} :
                    buffer'[g] = buffer[g] /\ digests'[g] = digests[g]

\* C7: a clone has the accumulator of its original, a write on either leaves
\* the other's accumulator and digest unchanged, and the same further writes
\* on both give equal digests.
C7_CloneIndependent == []CloneAgrees /\ [][CloneFrame]_vars

C7_Witness ==
    /\ forkAt = 1
    /\ Len(log[1]) = 3
    /\ log[1][1].op = "write"
    /\ log[1][2].op = "write_u64"
    /\ log[1][3].op = "finish"
    /\ log[2] = log[1]
    /\ buffer[1] # Start(1)
    /\ Digest(1) = Digest(2)

C9_DistinctWordsDistinctDigests ==
    \A h1, h2 \in live :
        \A a, b \in PairValues :
            (a # b /\ Finished(h1, WriteU64Op(a)) /\ Finished(h2, WriteU64Op(b)))
                => /\ buffer[h1] # buffer[h2]
                   /\ Digest(h1) # Digest(h2)

C9_Witness ==
    /\ Finished(1, WriteU64Op(One))
    /\ Finished(2, WriteU64Op(TopOne))
    /\ keys[1] = KeyZero

\* C10: the keys enter only through key0 XOR rotate_left(key1, ROT): the key
\* pairs (key0, key1) and (key0 XOR rotate_left(d, ROT), key1 XOR d) are
\* distinct, start from the same accumulator and give the same accumulator
\* and the same digest after the same writes.
C10_KeysEnterThroughXor ==
    \A h1, h2 \in live :
        keys[h2] = Related(keys[h1], Delta) =>
            /\ keys[h1] # keys[h2]
            /\ Start(h1) = Start(h2)
            /\ Writes(log[h1]) = Writes(log[h2]) =>
                  /\ buffer[h1] = buffer[h2]
                  /\ (digests[h1] # <<>> /\ digests[h2] # <<>>)
                        => Digest(h1) = Digest(h2)

C10_Witness ==
    /\ live = Hashers
    /\ keys[2] = Related(keys[1], Delta)
    /\ forkAt = -1
    /\ Len(Writes(log[1])) = 2
    /\ log[1] = log[2]
    /\ digests[1] # <<>>
    /\ Digest(1) = Digest(2)

====
